---- MODULE Spec2Model ----
(***************************************************************************)
(* A model of the Pipeline visual (src/src/visual.ts): the data converter  *)
(* CONVERTER, the update entry point with the three render steps it calls, *)
(* and the scroll handler update attaches.                                 *)
(*                                                                         *)
(* Strings are sequences of UTF-16 code units, so that split(','),         *)
(* toLowerCase(), toString() and the default sort() are computed as        *)
(* JavaScript computes them.  null is the value Null, which is no string.  *)
(* DOM elements are records El(tag, class, style, text, kids).             *)
(***************************************************************************)
EXTENDS Integers, Sequences, FiniteSets, TLC

(***************************************************************************)
(* Bounds of the model.                                                    *)
(***************************************************************************)
MaxColumns == 4      \* columns of a table handed to CONVERTER alone
MaxConvRows == 2     \* rows of a table handed to CONVERTER alone
MaxRows == 2         \* rows of a small table handed to update
MaxOver == 1         \* large tables have up to 250 + MaxOver rows

(***************************************************************************)
(* JavaScript values                                                       *)
(***************************************************************************)
Null == <<-1>>

\* the UTF-16 code unit of a character the model's strings use
CodeUnit(c) ==
    CASE c = "," -> 44 [] c = "A" -> 65 [] c = "B" -> 66 [] c = "C" -> 67
      [] c = "F" -> 70 [] c = "G" -> 71 [] c = "H" -> 72 [] c = "L" -> 76
      [] c = "M" -> 77 [] c = "S" -> 83 [] c = "W" -> 87 [] c = "a" -> 97
      [] c = "b" -> 98 [] c = "c" -> 99 [] c = "d" -> 100 [] c = "e" -> 101
      [] c = "f" -> 102 [] c = "g" -> 103 [] c = "h" -> 104 [] c = "i" -> 105
      [] c = "k" -> 107 [] c = "l" -> 108 [] c = "m" -> 109 [] c = "n" -> 110
      [] c = "o" -> 111 [] c = "p" -> 112 [] c = "r" -> 114 [] c = "s" -> 115
      [] c = "t" -> 116 [] c = "u" -> 117 [] c = "x" -> 120

\* the string spelt by a sequence of characters
Str(chars) == [i \in 1..Len(chars) |-> CodeUnit(chars[i])]

\* cell values of a table: strings, numbers, booleans, null; a row read
\* outside its bounds or at index undefined gives undefined
StrCell(s) == [t |-> "string", s |-> s, n |-> 0, b |-> FALSE]
NumCell(n) == [t |-> "number", s |-> <<>>, n |-> n, b |-> FALSE]
BoolCell(b) == [t |-> "boolean", s |-> <<>>, n |-> 0, b |-> b]
NullCell == [t |-> "null", s |-> <<>>, n |-> 0, b |-> FALSE]
UndefinedCell == [t |-> "undefined", s |-> <<>>, n |-> 0, b |-> FALSE]

\* ToBoolean: the falsy values are undefined, null, false, 0 and ""
Truthy(cell) ==
    CASE cell.t = "string" -> cell.s # <<>>
      [] cell.t = "number" -> cell.n # 0
      [] cell.t = "boolean" -> cell.b
      [] OTHER -> FALSE

RECURSIVE Digits(_)
Digits(n) ==
    IF n < 10 THEN <<48 + n>> ELSE Append(Digits(n \div 10), 48 + (n % 10))

\* Number.prototype.toString for integers
NumberToString(n) == IF n < 0 THEN <<45>> \o Digits(-n) ELSE Digits(n)

\* cell.toString() for a cell that is not null or undefined
toString(cell) ==
    CASE cell.t = "string" -> cell.s
      [] cell.t = "number" -> NumberToString(cell.n)
      [] cell.t = "boolean" ->
            IF cell.b THEN <<116, 114, 117, 101>> ELSE <<102, 97, 108, 115, 101>>

(***************************************************************************)
(* CONVERTER (visual.ts 292-320)                                           *)
(***************************************************************************)
\* a column index that was never assigned (let _nameIndex; has no initialiser)
undefinedIndex == -2

\* the indexes before the column loop: -1, -1, -1 and undefined
InitialIndex ==
    [Title |-> -1, Phase |-> -1, Category |-> -1, Name |-> undefinedIndex]

\* the chain keeping the first column found for a role
ColumnStepKeepsFirst(ix, roles, ti) ==
    IF "Title" \in roles
    THEN IF ix.Title = -1 THEN [ix EXCEPT !.Title = ti] ELSE ix
    ELSE IF "Phase" \in roles
    THEN IF ix.Phase = -1 THEN [ix EXCEPT !.Phase = ti] ELSE ix
    ELSE IF "Category" \in roles
    THEN IF ix.Category = -1 THEN [ix EXCEPT !.Category = ti] ELSE ix
    ELSE IF "Name" \in roles
    THEN IF ix.Name = undefinedIndex THEN [ix EXCEPT !.Name = ti] ELSE ix
    ELSE ix

\* one pass of the column loop body: the if / else-if chain over the roles
ColumnStep(ix, roles, ti) ==
    IF "Title" \in roles THEN [ix EXCEPT !.Title = ti]
    ELSE IF "Phase" \in roles THEN [ix EXCEPT !.Phase = ti]
    ELSE IF "Category" \in roles THEN [ix EXCEPT !.Category = ti]
    ELSE IF "Name" \in roles THEN [ix EXCEPT !.Name = ti]
    ELSE ix

\* for (let ti = 0; ti < _columns.length; ti++) { ... }
RECURSIVE ColumnLoop(_, _, _)
ColumnLoop(columns, ti, ix) ==
    IF ti < Len(columns)
    THEN ColumnLoop(columns, ti + 1, ColumnStep(ix, columns[ti + 1].roles, ti))
    ELSE ix

\* row[index]: undefined outside the row, at -1 and at undefined
CellAt(row, index) ==
    IF index \in 0..(Len(row) - 1) THEN row[index + 1] ELSE UndefinedCell

\* row[i] ? row[i].toString() : null
CellText(row, index) ==
    IF Truthy(CellAt(row, index)) THEN toString(CellAt(row, index)) ELSE Null

\* the record dp built from one row
RowRecord(row, ix) ==
    [Title |-> CellText(row, ix.Title),
     Phase |-> CellText(row, ix.Phase),
     Category |-> CellText(row, ix.Category),
     Name |-> CellText(row, ix.Name)]

\* the row loop: one record per row, in row order
RowLoop(_rows, ix) ==
    [resultData |-> [i \in 1..Len(_rows) |-> RowRecord(_rows[i], ix)],
     index |-> ix]

\* CONVERTER(dataView, host) for a dataView that has a table: the records
\* it returns and the column indexes it used
CONVERTER(dataView) ==
    RowLoop(dataView.table.rows,
            ColumnLoop(dataView.table.columns, 0, InitialIndex))

(***************************************************************************)
(* String and array methods update uses                                    *)
(***************************************************************************)
\* s.split(','): the pieces between the commas, at least one
RECURSIVE splitFrom(_, _, _)
splitFrom(s, i, piece) ==
    IF i > Len(s) THEN <<piece>>
    ELSE IF s[i] = 44 THEN <<piece>> \o splitFrom(s, i + 1, <<>>)
    ELSE splitFrom(s, i + 1, Append(piece, s[i]))

split(s) == splitFrom(s, 1, <<>>)

\* s.toLowerCase() on ASCII letters
toLowerCase(s) ==
    [i \in 1..Len(s) |-> IF s[i] \in 65..90 THEN s[i] + 32 ELSE s[i]]

\* a slice that keeps one element more
sliceOneMore(array, end) ==
    IF Len(array) <= end + 1 THEN array ELSE SubSeq(array, 1, end + 1)

\* array.slice(0, end)
slice(array, end) ==
    IF Len(array) <= end THEN array ELSE SubSeq(array, 1, end)

\* self.indexOf(v) searched from position j (0-based result, -1 if absent)
RECURSIVE indexOfFrom(_, _, _)
indexOfFrom(self, v, j) ==
    IF j > Len(self) THEN -1
    ELSE IF self[j] = v THEN j - 1
    ELSE indexOfFrom(self, v, j + 1)

indexOf(self, v) == indexOfFrom(self, v, 1)

\* array.filter((v, i, self) => self.indexOf(v) === i)
FirstOccurrences(array) ==
    LET positions == [i \in 1..Len(array) |-> i]
        kept == SelectSeq(positions, LAMBDA i: indexOf(array, array[i]) = i - 1)
    IN  [k \in 1..Len(kept) |-> array[kept[k]]]

\* String(x) as the default sort comparator applies it: null gives "null"
SortText(x) == IF x = Null THEN <<110, 117, 108, 108>> ELSE x

\* a < b by UTF-16 code units
CodeUnitLess(a, b) ==
    \E k \in 1..(Len(a) + 1) :
        /\ k <= Len(b)
        /\ \A j \in 1..(k - 1) : a[j] = b[j]
        /\ (k = Len(a) + 1 \/ a[k] < b[k])

\* x placed into a sorted array after every element that does not sort
\* after it (the sort is stable)
RECURSIVE InsertSorted(_, _)
InsertSorted(sorted, x) ==
    IF sorted = <<>> THEN <<x>>
    ELSE IF CodeUnitLess(SortText(x), SortText(sorted[Len(sorted)]))
         THEN Append(InsertSorted(SubSeq(sorted, 1, Len(sorted) - 1), x),
                     sorted[Len(sorted)])
         ELSE Append(sorted, x)

\* array.sort() with the default comparator
RECURSIVE sort(_)
sort(array) ==
    IF array = <<>> THEN <<>>
    ELSE InsertSorted(sort(SubSeq(array, 1, Len(array) - 1)), array[Len(array)])

(***************************************************************************)
(* DOM elements                                                            *)
(***************************************************************************)
NoStyle == [prop |-> "", str |-> "", nums |-> <<>>]

El(tag, class, style, text, kids) ==
    [tag |-> tag, class |-> class, style |-> style, text |-> text, kids |-> kids]

\* 'color:' + color + ';'
ColorStyle(color) == [prop |-> "color", str |-> color, nums |-> <<>>]

\* 'height:' + h + 'px;width:' + w + 'px'
SizeStyle(h, w) == [prop |-> "height;width", str |-> "px", nums |-> <<h, w>>]

\* 'margin-left:' + x + 'px;'
MarginLeftStyle(x) == [prop |-> "margin-left", str |-> "px", nums |-> <<x>>]

\* 'height:calc(100% - ' + h + 'px);'
CalcHeightStyle(h) == [prop |-> "height", str |-> "calc(100% - px)", nums |-> <<h>>]

\* '<img src="' + url + '"/>' parsed as the content of a band
ImgHtml(url) == <<[tag |-> "img", src |-> url]>>

(***************************************************************************)
(* Settings                                                                *)
(***************************************************************************)
\* VisualSettings.getDefault(): every field absent
DefaultSettings ==
    [title |-> <<>>, phases |-> <<>>, categories |-> <<>>, imgURL |-> <<>>,
     layout |-> <<>>]

\* Visual.parseSettings(options && options.dataViews && options.dataViews[0])
parseSettings(dataViews) ==
    IF dataViews = <<>> THEN DefaultSettings ELSE dataViews[1].objects

\* let colors = [...]
colors ==
    <<"#2ECC71", "#336EFF", "#641E16", "#FF5733", "#3498DB", "#4A235A",
      "#154360", "#0B5345", "#784212", "#424949", "#17202A", "#E74C3C",
      "#00ff00", "#0000ff", "#252D48">>

\* colors[i] for a 0-based i: undefined past the end of the palette
ColorAt(i) == IF i < Len(colors) THEN colors[i + 1] ELSE "undefined"

\* pipelineData.slice(0, 250)
MaxRecords == 250

(***************************************************************************)
(* The steps of update                                                     *)
(***************************************************************************)
\* the content root classed and sized with its old children left in place
ClearedTargetKeepsKids(root, s, viewport) ==
    [root EXCEPT
        !.class = "pipeline-container",
        !.style = IF s.layout # <<>>
                  THEN SizeStyle(viewport.height - 110, viewport.width)
                  ELSE SizeStyle(viewport.height, viewport.width)]

\* lines 111-119: the content root with its children removed, classed and
\* sized
ClearedTarget(root, s, viewport) ==
    [root EXCEPT
        !.kids = <<>>,
        !.class = "pipeline-container",
        !.style = IF s.layout # <<>>
                  THEN SizeStyle(viewport.height - 110, viewport.width)
                  ELSE SizeStyle(viewport.height, viewport.width)]

\* the category list left in the order it was found
CategoryDataUnsorted(s, data) ==
    IF s.categories # <<>>
    THEN split(s.categories)
    ELSE FirstOccurrences([i \in 1..Len(data) |-> data[i].Category])

\* the category list taken from the records whatever the setting
CategoryDataFromRecords(s, data) ==
    sort(FirstOccurrences([i \in 1..Len(data) |-> data[i].Category]))

\* lines 131-138: the category list
CategoryData(s, data) ==
    sort(IF s.categories # <<>>
         THEN split(s.categories)
         ELSE FirstOccurrences([i \in 1..Len(data) |-> data[i].Category]))

\* lines 139-144: categoryData.map((d, i) => ({category: d, color: colors[i]}))
CategoryColorData(categoryData) ==
    [i \in 1..Len(categoryData) |->
        [category |-> categoryData[i], color |-> ColorAt(i - 1)]]

\* renderLayout on the three elements: the header or the footer band
\* classed and its content replaced
renderLayout(s, dom) ==
    IF toLowerCase(s.layout) = Str(<<"h", "e", "a", "d", "e", "r">>)
    THEN [dom EXCEPT !.header =
            [class |-> "visual-header",
             html |-> IF s.imgURL # <<>> THEN ImgHtml(s.imgURL) ELSE <<>>]]
    ELSE IF toLowerCase(s.layout) = Str(<<"f", "o", "o", "t", "e", "r">>)
    THEN [dom EXCEPT !.footer =
            [class |-> "visual-footer",
             html |-> IF s.imgURL # <<>> THEN ImgHtml(s.imgURL) ELSE <<>>]]
    ELSE dom

\* categoryColorData.filter(cd => cd.category === d.Category)
ColorMatches(categoryColorData, d) ==
    SelectSeq(categoryColorData, LAMBDA cd: cd.category = d.Category)

\* a filter that keeps every record that has a phase
PhaseRecordsAnyPhase(pipelineData, pd) ==
    SelectSeq(pipelineData, LAMBDA d: d.Phase # Null)

\* pipelineData.filter(d => d.Phase === pd)
PhaseRecords(pipelineData, pd) ==
    SelectSeq(pipelineData, LAMBDA d: d.Phase = pd)

\* one element of the phase bar (lines 198-217)
PhaseEl(pd) ==
    El("div", "phase", NoStyle, <<>>,
       <<El("p", "phase-text", NoStyle, pd, <<>>),
         El("div", "phase-arrow", NoStyle, <<>>, <<>>),
         El("div", "phase-rope", NoStyle, <<>>, <<>>),
         El("div", "phase-rope-circle", NoStyle, <<>>, <<>>)>>)

\* d.Title ? d.Title.toString() : ''
TextOrEmpty(v) == IF v # Null /\ v # <<>> THEN v ELSE <<>>

\* 'color:' + moAcolor.color + ';' for a record whose category is mapped
CompanyStyle(categoryColorData, d) ==
    ColorStyle(ColorMatches(categoryColorData, d)[1].color)

\* a company block when both paragraphs were rendered (lines 232-253)
CompanyEl(categoryColorData, d) ==
    El("div", "company", NoStyle, <<>>,
       <<El("p", "company-name", CompanyStyle(categoryColorData, d),
            TextOrEmpty(d.Title), <<>>),
         El("p", "product-name", CompanyStyle(categoryColorData, d),
            TextOrEmpty(d.Name), <<>>)>>)

\* a company block when the style callback of line 239-240 threw for some
\* record: every block has its first paragraph, classed; the blocks d3
\* visited before the failing one have their style; no text was set and no
\* second paragraph appended
PartialCompanyEl(categoryColorData, d, styled) ==
    El("div", "company", NoStyle, <<>>,
       <<El("p", "company-name",
            IF styled THEN CompanyStyle(categoryColorData, d) ELSE NoStyle,
            <<>>, <<>>)>>)

\* the records of each phase, in phase order (the data of lines 229-231)
PhaseGroups(phaseData, pipelineData) ==
    [g \in 1..Len(phaseData) |-> PhaseRecords(pipelineData, phaseData[g])]

\* the first company block, in d3's order (group by group), whose category
\* has no entry in the mapping, as <<group, position>>; <<0, 0>> if none
FirstFailure(categoryColorData, groups) ==
    LET Fails(d) == ColorMatches(categoryColorData, d) = <<>>
        failing == {g \in 1..Len(groups) :
                      \E j \in 1..Len(groups[g]) : Fails(groups[g][j])}
    IN  IF failing = {} THEN <<0, 0>>
        ELSE LET gF == CHOOSE g \in failing : \A h \in failing : g <= h
             IN  <<gF, CHOOSE j \in 1..Len(groups[gF]) :
                          /\ Fails(groups[gF][j])
                          /\ \A k \in 1..(j - 1) : ~Fails(groups[gF][k])>>

\* the company blocks of group g
Companies(categoryColorData, groups, failure, g) ==
    [j \in 1..Len(groups[g]) |->
        IF failure # <<0, 0>>
        THEN PartialCompanyEl(categoryColorData, groups[g][j],
                 g < failure[1] \/ (g = failure[1] /\ j < failure[2]))
        ELSE CompanyEl(categoryColorData, groups[g][j])]

\* the element tree of lines 185-253 for the grouped records
MainContent(s, phaseData, categoryColorData, groups, failure) ==
    El("div", "main-content", NoStyle, <<>>,
       <<El("div", "header", NoStyle, <<>>,
            <<El("p", "", NoStyle, s.title, <<>>)>>),
         El("div", "pipeline-wrap", NoStyle, <<>>,
            <<El("div", "pipeline-bar", NoStyle, <<>>,
                 [g \in 1..Len(phaseData) |-> PhaseEl(phaseData[g])]),
              El("div", "companies-wrap", NoStyle, <<>>,
                 [g \in 1..Len(phaseData) |->
                     El("div", "phase-companies", NoStyle, <<>>,
                        Companies(categoryColorData, groups, failure, g))])>>)>>)

ReportOf(s, phaseData, categoryColorData, groups, failure) ==
    [threw |-> failure # <<0, 0>>,
     mainContent |-> MainContent(s, phaseData, categoryColorData, groups, failure)]

ReportOfGroups(s, phaseData, categoryColorData, groups) ==
    ReportOf(s, phaseData, categoryColorData, groups,
             FirstFailure(categoryColorData, groups))

\* renderPipelineReport: the main-content element appended to the content
\* root, and whether the category lookup of line 239-240 threw
renderPipelineReport(s, phaseData, pipelineData, categoryColorData) ==
    ReportOfGroups(s, phaseData, categoryColorData,
                   PhaseGroups(phaseData, pipelineData))

\* one entry of the legend (lines 261-272)
LegendEl(cd) ==
    El("div", "legend", NoStyle, <<>>,
       <<El("p", "", ColorStyle(cd.color), TextOrEmpty(cd.category), <<>>)>>)

\* legendWrap.node().getBoundingClientRect().height: the layout engine's
\* height of the legend, a function of its content (one unit per entry)
BoundingHeight(legendWrap) == Len(legendWrap.kids)

\* renderLegend: main-content with the legend appended to the pipeline-wrap
\* and the companies-wrap given its height.  d3.select('.pipeline-wrap') and
\* d3.select('.companies-wrap') find the elements update has just built: the
\* content root was emptied first and the bands hold nothing but an image.
LegendWrap(categoryColorData) ==
    El("div", "legend-wrap", NoStyle, <<>>,
       [i \in 1..Len(categoryColorData) |-> LegendEl(categoryColorData[i])])

AppendLegend(mainContent, legendWrap) ==
    [mainContent EXCEPT
        !.kids[2].kids = Append(@, legendWrap),
        !.kids[2].kids[2].style =
            CalcHeightStyle(260 + BoundingHeight(legendWrap))]

renderLegend(mainContent, categoryColorData) ==
    AppendLegend(mainContent, LegendWrap(categoryColorData))

\* handleScrollEvent: the phase bar's margin reset (the scroll listener it
\* attaches is the variable scrollHandler)
handleScrollEvent(mainContent) ==
    [mainContent EXCEPT !.kids[2].kids[1].style = MarginLeftStyle(0)]

(***************************************************************************)
(* State                                                                   *)
(***************************************************************************)
VARIABLES
    header,             \* this.header: the band's class and content
    target,             \* this.target: the content root and its subtree
    footer,             \* this.footer
    settings,           \* this.settings: <<>> until the first update
    scrollHandler,      \* the companies-wrap in the document has the listener
    notified,           \* the eventService calls of the latest update call
    outcome,            \* how the latest call ended
    lastCall,           \* the latest call the host made
    options,            \* the options of the latest update call
    repeated,           \* the latest call was an update with the options of
                        \* the update call right before it
    pipelineData,       \* update's local pipelineData (after the slice)
    phaseData,          \* update's local phaseData
    categoryColorData,  \* update's local categoryColorData
    columnIndex         \* CONVERTER's column indexes

vars ==
    <<header, target, footer, settings, scrollHandler, notified, outcome,
      lastCall, options, repeated, pipelineData, phaseData, categoryColorData,
      columnIndex>>

NoOptions == [viewport |-> [height |-> 0, width |-> 0], dataViews |-> <<>>]

\* the constructor: three empty divs appended to the host's element
Constructed ==
    /\ header = [class |-> "", html |-> <<>>]
    /\ target = El("div", "", NoStyle, <<>>, <<>>)
    /\ footer = [class |-> "", html |-> <<>>]
    /\ settings = <<>>
    /\ scrollHandler = FALSE
    /\ notified = <<>>
    /\ outcome = "none"
    /\ lastCall = "constructor"
    /\ repeated = FALSE
    /\ pipelineData = <<>>
    /\ phaseData = <<>>
    /\ categoryColorData = <<>>
    /\ columnIndex = InitialIndex

Init == Constructed /\ options = NoOptions

(***************************************************************************)
(* update (visual.ts 106-155), wrapped by logExceptions, which rethrows    *)
(***************************************************************************)
\* the call that ends at line 123: options.dataViews[0] is undefined and
\* CONVERTER reads dataView.table of it: TypeError
ThrownAtConverter(s, o, dom, index) ==
    [settings |-> s, header |-> dom.header, footer |-> dom.footer,
     target |-> ClearedTarget(dom.target, s, o.viewport),
     scrollHandler |-> FALSE,
     notified |-> <<"renderingStarted">>, outcome |-> "threw",
     pipelineData |-> <<>>, phaseData |-> <<>>, categoryColorData |-> <<>>,
     columnIndex |-> index]

\* lines 146-154 on the locals computed before them
Rendered(s, o, index, data, phases, ccd, dom, report) ==
    [settings |-> s, header |-> dom.header, footer |-> dom.footer,
     target |->
        \* this.target.append('div'), the subtree as the later steps leave it
        [ClearedTarget(dom.target, s, o.viewport) EXCEPT !.kids =
            Append(@, IF report.threw
                      THEN report.mainContent
                      ELSE handleScrollEvent(
                               renderLegend(report.mainContent, ccd)))],
     scrollHandler |-> ~report.threw,
     notified |->
        IF report.threw
        THEN <<"renderingStarted">>
        ELSE <<"renderingStarted", "renderingFinished">>,
     outcome |-> IF report.threw THEN "threw" ELSE "returned",
     pipelineData |-> data, phaseData |-> phases, categoryColorData |-> ccd,
     columnIndex |-> index]

\* lines 146-154 on pipelineData, phaseData and categoryColorData
WithMapping(s, o, dom, index, data, phases, ccd) ==
    Rendered(s, o, index, data, phases, ccd, renderLayout(s, dom),
             renderPipelineReport(s, phases, data, ccd))

\* lines 131-154 on pipelineData and phaseData
WithData(s, o, dom, index, data, phases) ==
    WithMapping(s, o, dom, index, data, phases,
                CategoryColorData(CategoryData(s, data)))

\* lines 124-154 on CONVERTER's result
WithConverted(s, o, dom, converted) ==
    WithData(s, o, dom, converted.index,
             slice(converted.resultData, MaxRecords), split(s.phases))

\* lines 108-154 with this.settings parsed
WithSettings(s, o, dom, index) ==
    IF o.dataViews = <<>>
    THEN ThrownAtConverter(s, o, dom, index)
    ELSE WithConverted(s, o, dom, CONVERTER(o.dataViews[1]))

\* what a call of update leaves behind, given the three elements and the
\* column indexes as it finds them
Updated(o, dom, index) ==
    WithSettings(parseSettings(o.dataViews), o, dom, index)

\* the call's effects on the visual and on the host
Assign(o, r) ==
    /\ lastCall' = "update"
    /\ options' = o
    /\ repeated' = (lastCall = "update" /\ options = o)
    /\ settings' = <<r.settings>>
    /\ header' = r.header
    /\ footer' = r.footer
    /\ target' = r.target
    /\ scrollHandler' = r.scrollHandler
    /\ notified' = r.notified
    /\ outcome' = r.outcome
    /\ pipelineData' = r.pipelineData
    /\ phaseData' = r.phaseData
    /\ categoryColorData' = r.categoryColorData
    /\ columnIndex' = r.columnIndex

update(o) ==
    Assign(o, Updated(o, [header |-> header, target |-> target, footer |-> footer],
                      columnIndex))

\* the listener of lines 284-289, run on a scroll event of the companies-wrap
scroll(scrollLeft) ==
    /\ scrollHandler
    /\ lastCall' = "scroll"
    /\ repeated' = FALSE
    /\ target' = [target EXCEPT
                    !.kids[1].kids[2].kids[1].style = MarginLeftStyle(-scrollLeft)]
    /\ UNCHANGED <<header, footer, settings, scrollHandler, notified, outcome,
                   options, pipelineData, phaseData, categoryColorData,
                   columnIndex>>

(***************************************************************************)
(* Inputs the host hands over                                              *)
(***************************************************************************)
sLead == Str(<<"L", "e", "a", "d">>)
sClosed == Str(<<"C", "l", "o", "s", "e", "d">>)
sSales == Str(<<"S", "a", "l", "e", "s">>)
sMarketing == Str(<<"M", "a", "r", "k", "e", "t", "i", "n", "g">>)
sAcme == Str(<<"A", "c", "m", "e">>)
sGlobex == Str(<<"G", "l", "o", "b", "e", "x">>)
sWidgetA == Str(<<"W", "i", "d", "g", "e", "t", "A">>)
sWidgetB == Str(<<"W", "i", "d", "g", "e", "t", "B">>)
sLogo == Str(<<"l", "o", "g", "o">>)

Viewport == [height |-> 600, width |-> 800]

RoleColumn(roles) == [roles |-> roles]

\* the four columns of the usual binding, one role each
UsualColumns ==
    <<RoleColumn({"Title"}), RoleColumn({"Phase"}), RoleColumn({"Category"}),
      RoleColumn({"Name"})>>

\* rows of the usual binding: text cells, and a row with a number, a
\* missing category and a boolean
RowChoices ==
    {<<StrCell(sAcme), StrCell(sLead), StrCell(sSales), StrCell(sWidgetA)>>,
     <<StrCell(sGlobex), StrCell(sClosed), StrCell(sMarketing), StrCell(sWidgetB)>>,
     <<NumCell(7), StrCell(sLead), NullCell, BoolCell(TRUE)>>}

\* the tables of up to MaxRows different rows, in every order
SmallTables ==
    {[columns |-> UsualColumns, rows |-> rows] :
        rows \in {r \in UNION {[1..n -> RowChoices] : n \in 0..MaxRows} :
                    \A i, j \in DOMAIN r : i # j => r[i] # r[j]}}

sLeadClosed == sLead \o <<44>> \o sClosed
sSalesMarketing == sSales \o <<44>> \o sMarketing

NoLayout == [layout |-> <<>>, imgURL |-> <<>>]
HeaderLogo == [layout |-> Str(<<"H", "e", "a", "d", "e", "r">>), imgURL |-> sLogo]
FooterLogo == [layout |-> Str(<<"f", "o", "o", "t", "e", "r">>), imgURL |-> sLogo]
HeaderBare == [layout |-> Str(<<"h", "e", "a", "d", "e", "r">>), imgURL |-> <<>>]

SettingsOf(phases, categories, l) ==
    [title |-> Str(<<"L", "e", "a", "d", "s">>), phases |-> phases, categories |-> categories,
     imgURL |-> l.imgURL, layout |-> l.layout]

\* the settings of the update calls: phases "Lead,Closed" with the
\* categories unset under each layout, and with categories "Sales,Marketing";
\* phases "Closed,,Closed" with the categories unset and with "Sales"
SettingsChoices ==
    {SettingsOf(sLeadClosed, <<>>, l) :
        l \in {NoLayout, HeaderLogo, FooterLogo, HeaderBare}}
    \cup {SettingsOf(sLeadClosed, sSalesMarketing, NoLayout),
          SettingsOf(sClosed \o <<44, 44>> \o sClosed, <<>>, NoLayout),
          SettingsOf(sClosed \o <<44, 44>> \o sClosed, sSales, FooterLogo)}

\* the options of an update call: no dataset, or one table with settings
OptionsOf(tables, settingsChoices) ==
    {[viewport |-> Viewport, dataViews |-> dataViews] :
        dataViews \in {<<>>} \cup
            {<<[table |-> t, objects |-> st]>> : t \in tables, st \in settingsChoices}}

SmallOptions == OptionsOf(SmallTables, SettingsChoices)

ScrollOffsets == {0, 40}

Next ==
    \/ \E o \in SmallOptions : update(o)
    \/ \E x \in ScrollOffsets : scroll(x)

Spec == Init /\ [][Next]_vars

(***************************************************************************)
(* Large tables: row i carries the number i as title, the phases in turn   *)
(* and the category i modulo m                                             *)
(***************************************************************************)
LargeRow(i, m) ==
    <<NumCell(i),
      IF i % 3 = 0 THEN StrCell(sLead)
      ELSE IF i % 3 = 1 THEN StrCell(sClosed) ELSE NullCell,
      NumCell(i % m),
      StrCell(sWidgetA)>>

LargeTable(n, m) ==
    [columns |-> UsualColumns, rows |-> [i \in 1..n |-> LargeRow(i - 1, m)]]

\* tables around the record cap with as many categories as the palette has
\* colours, and tables with as many categories and with one more
LargeTables ==
    {LargeTable(n, Len(colors)) :
        n \in {0, 1} \cup (MaxRecords - 1)..(MaxRecords + MaxOver)}
    \cup {LargeTable(2 * Len(colors) + 2, m) : m \in {Len(colors), Len(colors) + 1}}

LargeOptions ==
    OptionsOf(LargeTables,
              {SettingsOf(sLeadClosed, <<>>, NoLayout),
               SettingsOf(sLeadClosed, <<>>, HeaderLogo),
               SettingsOf(sLeadClosed, sSalesMarketing, NoLayout)})

NextLarge ==
    \/ \E o \in LargeOptions : update(o)
    \/ \E x \in ScrollOffsets : scroll(x)

SpecLarge == Init /\ [][NextLarge]_vars

(***************************************************************************)
(* CONVERTER alone, on tables whose columns carry any of the role sets     *)
(***************************************************************************)
\* the role sets of a column: one role, or the same field bound to two
RoleSets ==
    {{"Title"}, {"Phase"}, {"Category"}, {"Name"}, {"Title", "Phase"}}

\* cell values of every kind, the falsy ones among them
CellPool ==
    <<StrCell(sAcme), NumCell(0), StrCell(sLead), BoolCell(TRUE), NullCell,
      NumCell(-12), StrCell(<<>>), BoolCell(FALSE), NumCell(250)>>

\* row k of width n: the cells of the pool in turn, starting at the k-th
PoolRow(k, n) == [j \in 1..n |-> CellPool[((k + j) % Len(CellPool)) + 1]]

ConvTables ==
    {[columns |-> [c \in 1..n |-> RoleColumn(roles[c])],
      rows |-> [i \in 1..Len(ks) |-> PoolRow(ks[i], n)]] :
        n \in 0..MaxColumns,
        roles \in [1..MaxColumns -> RoleSets],
        ks \in UNION {[1..m -> {0, 4}] : m \in 0..MaxConvRows}}

InitConv ==
    /\ Constructed
    /\ options \in {[viewport |-> Viewport,
                     dataViews |-> <<[table |-> t, objects |-> DefaultSettings]>>] :
                        t \in ConvTables}

\* Visual.CONVERTER(options.dataViews[0], host) called on its own
Convert ==
    /\ lastCall = "constructor"
    /\ lastCall' = "CONVERTER"
    /\ pipelineData' = CONVERTER(options.dataViews[1]).resultData
    /\ columnIndex' = CONVERTER(options.dataViews[1]).index
    /\ UNCHANGED <<header, target, footer, settings, scrollHandler, notified,
                   outcome, options, repeated, phaseData, categoryColorData>>

SpecConv == InitConv /\ [][Convert]_vars

(***************************************************************************)
(* Properties                                                              *)
(***************************************************************************)
Roles == {"Title", "Phase", "Category", "Name"}

HasDataset == options.dataViews # <<>>
InputRows == options.dataViews[1].table.rows
InputColumns == options.dataViews[1].table.columns

\* the 0-based indexes of the columns tagged with a role
Tagged(role) == {ti \in 0..(Len(InputColumns) - 1) : role \in InputColumns[ti + 1].roles}

\* the text of a cell, or null when the cell is falsy
TextOrNull(cell) == IF Truthy(cell) THEN toString(cell) ELSE Null

\* C1: for a table of N rows CONVERTER returns N records, the i-th built
\* from the i-th row, each field the text of the row's cell in the column
\* tagged with the field's role, or null when that cell is falsy
C1_FieldsFromTaggedColumns ==
    lastCall = "CONVERTER" =>
        /\ Len(pipelineData) = Len(InputRows)
        /\ \A i \in 1..Len(InputRows) : \A role \in Roles : \A ti \in Tagged(role) :
              Tagged(role) = {ti} =>
                  pipelineData[i][role] = TextOrNull(InputRows[i][ti + 1])

\* the role the if / else-if chain counts a column for: the first of Title,
\* Phase, Category, Name among its roles
CountedFor(roles) ==
    CHOOSE r \in Roles \cup {"none"} :
        \/ r = "none" /\ roles \cap Roles = {}
        \/ /\ r \in roles
           /\ \A q \in roles \cap Roles :
                 LET rank == [x \in Roles |->
                                 CASE x = "Title" -> 1 [] x = "Phase" -> 2
                                   [] x = "Category" -> 3 [] x = "Name" -> 4]
                 IN  rank[r] <= rank[q]

Counted(role) ==
    {ti \in 0..(Len(InputColumns) - 1) : CountedFor(InputColumns[ti + 1].roles) = role}

\* C10 as stated: each role's index is that of the first column tagged with
\* the role; a role no column carries has no index (-1, or the unassigned
\* _nameIndex) and its field is null in every record
C10_FirstMatchWins ==
    lastCall = "CONVERTER" =>
        \A role \in Roles :
            IF Tagged(role) # {}
            THEN \A ti \in Tagged(role) :
                    (\A tj \in Tagged(role) : ti <= tj) => columnIndex[role] = ti
            ELSE /\ columnIndex[role] \in {-1, undefinedIndex}
                 /\ \A i \in 1..Len(pipelineData) : pipelineData[i][role] = Null

\* C10 amended: each role's index is that of the last column the else-if
\* chain counts for the role; a role no column is counted for keeps its
\* initial index and its field is null in every record
C10_LastCountedWins ==
    lastCall = "CONVERTER" =>
        \A role \in Roles :
            IF Counted(role) # {}
            THEN \A ti \in Counted(role) :
                    (\A tj \in Counted(role) : tj <= ti) => columnIndex[role] = ti
            ELSE /\ columnIndex[role] = InitialIndex[role]
                 /\ \A i \in 1..Len(pipelineData) : pipelineData[i][role] = Null

\* CONVERTER has run on a table with rows in which two columns are counted
\* for Title, the later one was picked, and no column is counted for Name
C10_Witness ==
    /\ lastCall = "CONVERTER"
    /\ Len(pipelineData) > 0
    /\ Cardinality(Counted("Title")) = 2
    /\ columnIndex.Title > 0
    /\ Counted("Name") = {}
    /\ columnIndex.Name = undefinedIndex
    /\ \E i \in 1..Len(pipelineData) : pipelineData[i].Title # Null

\* an update call got as far as computing its locals
Computed == lastCall \in {"update", "scroll"} /\ HasDataset

Min(a, b) == IF a <= b THEN a ELSE b

\* C9: the records update passes to rendering are the first min(N, 250)
\* records of the N-row table, in input order
C9_FirstRecordsUpToCap ==
    Computed =>
        /\ Len(pipelineData) = Min(Len(InputRows), 250)
        /\ Len(pipelineData) <= 250
        /\ \A i \in 1..Len(pipelineData) :
              pipelineData[i] = RowRecord(InputRows[i], columnIndex)

\* update has run on a table of more than 250 rows and rendered 250 records
C9_Witness ==
    /\ Computed
    /\ outcome = "returned"
    /\ Len(InputRows) > 250
    /\ Len(pipelineData) = 250

CategoriesUnset == Computed /\ settings[1].categories = <<>>

\* the categories of the mapping, in its order
MappedCategories == [i \in 1..Len(categoryColorData) |-> categoryColorData[i].category]

\* sorted as the default sort compares: by the code units of the text, null
\* as the text "null"
InSortedOrder(seq) ==
    \A i, j \in 1..Len(seq) :
        i < j => ~CodeUnitLess(SortText(seq[j]), SortText(seq[i]))

\* C3: with the categories setting unset the mapping holds exactly the
\* distinct categories of the records, each once, in sorted order; when
\* there are at most 15 every category has a palette colour of its own
C3_UnsetCategoriesSortedDistinct ==
    CategoriesUnset =>
        /\ {MappedCategories[i] : i \in 1..Len(MappedCategories)}
              = {pipelineData[i].Category : i \in 1..Len(pipelineData)}
        /\ \A i, j \in 1..Len(MappedCategories) :
              i # j => MappedCategories[i] # MappedCategories[j]
        /\ InSortedOrder(MappedCategories)
        /\ Len(MappedCategories) <= 15 =>
              \A i, j \in 1..Len(categoryColorData) :
                  /\ \E k \in 1..Len(colors) : categoryColorData[i].color = colors[k]
                  /\ i # j => categoryColorData[i].color # categoryColorData[j].color

\* update has run with the categories unset on records with exactly 15
\* distinct categories, a missing one among them, met in an order that is
\* not the sorted one and more than once
C3_Witness ==
    /\ CategoriesUnset
    /\ outcome = "returned"
    /\ Len(categoryColorData) = 15
    /\ Len(pipelineData) > 15
    /\ \E i \in 1..Len(pipelineData) : pipelineData[i].Category = Null
    /\ ~InSortedOrder([i \in 1..Len(pipelineData) |-> pipelineData[i].Category])

CategoriesConfigured == Computed /\ settings[1].categories # <<>>

\* the configured category list, in the configured order
ConfiguredCategories == split(settings[1].categories)

\* how often v occurs in seq
Occurrences(seq, v) == Cardinality({i \in 1..Len(seq) : seq[i] = v})

\* C2 as stated: with the categories setting configured the mapping pairs
\* the i-th configured category with the i-th palette colour
C2_ConfiguredOrderKept ==
    CategoriesConfigured =>
        /\ Len(categoryColorData) = Len(ConfiguredCategories)
        /\ \A i \in 1..Len(categoryColorData) :
              /\ categoryColorData[i].category = ConfiguredCategories[i]
              /\ categoryColorData[i].color = ColorAt(i - 1)

\* C2 amended: with the categories setting configured the mapping lists the
\* configured categories in sorted order, whatever the configured order and
\* the order of the data, the i-th of them paired with the i-th palette
\* colour
C2_ConfiguredCategoriesSorted ==
    CategoriesConfigured =>
        /\ Len(categoryColorData) = Len(ConfiguredCategories)
        /\ \A i \in 1..Len(ConfiguredCategories) :
              Occurrences(MappedCategories, ConfiguredCategories[i])
                  = Occurrences(ConfiguredCategories, ConfiguredCategories[i])
        /\ InSortedOrder(MappedCategories)
        /\ \A i \in 1..Len(categoryColorData) :
              categoryColorData[i].color = ColorAt(i - 1)

\* update has run with categories configured in an order that is not the
\* sorted one, on records that meet the categories in the configured order
C2_Witness ==
    /\ CategoriesConfigured
    /\ Len(ConfiguredCategories) = 2
    /\ ~InSortedOrder(ConfiguredCategories)
    /\ Len(pipelineData) = 2
    /\ \A i \in 1..2 : pipelineData[i].Category = ConfiguredCategories[i]
    /\ outcome = "returned"

\* C4: every call of update notifies the host of renderingStarted first and
\* of renderingFinished last
C4_StartedThenFinished ==
    lastCall = "update" => notified = <<"renderingStarted", "renderingFinished">>

\* the company blocks of the rendered tree, group by group
CompanyGroups == target.kids[1].kids[2].kids[2].kids

\* C5: an update with no dataset, or with a table of zero rows, produces no
\* records and completes, rendering a pipeline without company blocks
C5_NoDataRendersEmpty ==
    (lastCall = "update" /\ (~HasDataset \/ InputRows = <<>>)) =>
        /\ outcome = "returned"
        /\ pipelineData = <<>>
        /\ \A g \in 1..Len(CompanyGroups) : CompanyGroups[g].kids = <<>>

\* C6: an update called with the options of the update call right before it
\* leaves the header band, the content root and the footer band as they were
C6_UpdateIdempotent ==
    [][(lastCall = "update" /\ lastCall' = "update" /\ options' = options) =>
          (header' = header /\ target' = target /\ footer' = footer)]_vars

\* the same update has been called twice in a row and rendered a header
\* image, company blocks and a legend
C6_Witness ==
    /\ repeated
    /\ outcome = "returned"
    /\ header.html # <<>>
    /\ Len(target.kids) = 1
    /\ \E g \in 1..Len(CompanyGroups) : CompanyGroups[g].kids # <<>>
    /\ target.kids[1].kids[2].kids[3].kids # <<>>

\* C7: after an update whose layout is "header" with an image URL set, the
\* header band holds the image with that URL and the footer band is empty
C7_HeaderImageFooterEmpty ==
    (/\ lastCall = "update"
     /\ toLowerCase(settings[1].layout) = Str(<<"h", "e", "a", "d", "e", "r">>)
     /\ settings[1].imgURL # <<>>) =>
        /\ header.html = <<[tag |-> "img", src |-> settings[1].imgURL]>>
        /\ footer.html = <<>>

\* the positions of the records whose phase is the label
WithPhase(label) == {i \in 1..Len(pipelineData) : pipelineData[i].Phase = label}

\* C8: after a successful update the companies area has one group per
\* configured phase label, in the configured order, and the group of a
\* label holds one block per rendered record with that phase, in row order
C8_BlocksGroupedByPhase ==
    (Computed /\ outcome = "returned") =>
        LET labels == split(settings[1].phases)
        IN  /\ Len(CompanyGroups) = Len(labels)
            /\ \A g \in 1..Len(labels) :
                  /\ Len(CompanyGroups[g].kids) = Cardinality(WithPhase(labels[g]))
                  /\ \A i \in WithPhase(labels[g]) :
                        LET block == CompanyGroups[g].kids[
                                        Cardinality({j \in WithPhase(labels[g]) : j <= i})]
                        IN  /\ block.kids[1].text = TextOrEmpty(pipelineData[i].Title)
                            /\ block.kids[2].text = TextOrEmpty(pipelineData[i].Name)

\* a successful update has rendered two records of the first phase, in row
\* order though their titles sort the other way, and none of the second
C8_Witness ==
    /\ Computed /\ outcome = "returned"
    /\ Len(CompanyGroups) = 2
    /\ Len(pipelineData) = 2
    /\ Len(CompanyGroups[1].kids) = 2
    /\ CompanyGroups[2].kids = <<>>
    /\ CompanyGroups[1].kids[1].kids[1].text = pipelineData[1].Title
    /\ CompanyGroups[1].kids[2].kids[1].text = pipelineData[2].Title
    /\ CodeUnitLess(pipelineData[2].Title, pipelineData[1].Title)

====
